---- MODULE Spec2Model ----
(***************************************************************************)
(* The digest-generation pipeline of ai-news-digest: create_digest of      *)
(* digester/summariser.py with its helpers _extract_text,                  *)
(* _direct_readable, _jina_readable and _build_prompt.                     *)
(*                                                                         *)
(* Text is a sequence of one-character strings; " " is the only whitespace *)
(* character of the fixtures.  A news item is a Python dict, modelled as a *)
(* function whose DOMAIN is the set of keys the dict has; the dicts live   *)
(* in a heap indexed by object identity, because sorted() copies the list  *)
(* but not the dicts.                                                      *)
(***************************************************************************)
EXTENDS Integers, Sequences, FiniteSets, TLC

\* ---------------------------------------------------------------- bounds
MaxItems == 2      \* longest item list handed to create_digest

\* ------------------------------------------------------ program constants
DefaultMaxStories == 8       \* int(os.getenv("MAX_STORIES", 8))
DefaultCharLimit  == 5000    \* int(os.getenv("ARTICLE_CHAR_LIMIT", 5000))
DescThreshold     == 50      \* len(it["description"].strip()) > 50
ShortenWidth      == 400     \* textwrap.shorten(it["content"], 400, ...)
IdLen             == 16      \* hexdigest()[:16]
Forbidden         == 403     \* exc.response.status_code == 403

\* ------------------------------------------------------------ text helpers
Min(a, b) == IF a < b THEN a ELSE b

IsSpace(c) == c = " "

\* n copies of the character c
Rep(c, n) == [k \in 1..n |-> c]

\* Python s[:n] for n >= 0
Prefix(s, n) == SubSeq(s, 1, Min(n, Len(s)))

RECURSIVE LStrip(_)
LStrip(s) == IF s # <<>> /\ IsSpace(Head(s)) THEN LStrip(Tail(s)) ELSE s

RECURSIVE RStrip(_)
RStrip(s) ==
    IF s # <<>> /\ IsSpace(s[Len(s)]) THEN RStrip(SubSeq(s, 1, Len(s) - 1)) ELSE s

\* Python str.strip()
Strip(s) == LStrip(RStrip(s))

\* Python str.split(): the maximal runs of non-whitespace characters
RECURSIVE SplitWords(_, _)
SplitWords(s, cur) ==
    IF s = <<>> THEN (IF cur = <<>> THEN <<>> ELSE <<cur>>)
    ELSE IF IsSpace(Head(s))
         THEN (IF cur = <<>> THEN <<>> ELSE <<cur>>) \o SplitWords(Tail(s), <<>>)
         ELSE SplitWords(Tail(s), Append(cur, Head(s)))

\* Python " ".join(words)
RECURSIVE JoinWords(_)
JoinWords(ws) ==
    IF ws = <<>> THEN <<>>
    ELSE IF Len(ws) = 1 THEN ws[1]
    ELSE ws[1] \o <<" ">> \o JoinWords(Tail(ws))

\* the one-character placeholder U+2026 of the shorten call, written "~"
Ellipsis == "~"

\* textwrap.shorten(text, width, placeholder): collapse the whitespace;
\* a text that still does not fit keeps the longest run of leading words
\* that leaves room for the one-character placeholder.
Shorten(text, width) ==
    LET ws     == SplitWords(text, <<>>)
        joined == JoinWords(ws)
        fits   == {k \in 1..Len(ws) : Len(JoinWords(SubSeq(ws, 1, k))) + 1 <= width}
        kmax   == CHOOSE k \in fits : \A j \in fits : j <= k
    IN  IF Len(joined) <= width THEN joined
        ELSE IF fits = {} THEN <<Ellipsis>>
        ELSE JoinWords(SubSeq(ws, 1, kmax)) \o <<Ellipsis>>

\* int() of a decimal digit string
DigitVal(c) ==
    CASE c = "0" -> 0 [] c = "1" -> 1 [] c = "2" -> 2 [] c = "3" -> 3
      [] c = "4" -> 4 [] c = "5" -> 5 [] c = "6" -> 6 [] c = "7" -> 7
      [] c = "8" -> 8 [] c = "9" -> 9

RECURSIVE ParseInt(_)
ParseInt(s) ==
    IF s = <<>> THEN 0 ELSE 10 * ParseInt(SubSeq(s, 1, Len(s) - 1)) + DigitVal(s[Len(s)])

\* ------------------------------------------------------------ environment
\* os.environ: every name maps to <<>> when it is unset, to <<value>> when set.
Getenv(e, name, default) == IF e[name] = <<>> THEN default ELSE e[name][1]

EnvMaxStories == {<<"1">>, <<"2">>}
EnvCharLimit  == {<<"3">>}
EnvApiKey     == {<<>>, <<"s", "k">>}

Environments ==
    [MAX_STORIES        : {<<>>} \cup {<<v>> : v \in EnvMaxStories},
     ARTICLE_CHAR_LIMIT : {<<>>} \cup {<<v>> : v \in EnvCharLimit},
     OPENROUTER_API_KEY : {<<>>} \cup {<<v>> : v \in EnvApiKey}]

\* MAX_PER_DIGEST and CHAR_LIMIT as the module computes them when it loads
LoadMaxPerDigest(e) ==
    IF e.MAX_STORIES = <<>> THEN DefaultMaxStories
    ELSE ParseInt(Getenv(e, "MAX_STORIES", <<>>))

LoadCharLimit(e) ==
    IF e.ARTICLE_CHAR_LIMIT = <<>> THEN DefaultCharLimit
    ELSE ParseInt(Getenv(e, "ARTICLE_CHAR_LIMIT", <<>>))

\* --------------------------------------------------------------- fixtures
TITLES  == <<"Article 1", "Article 2", "Article 3", "Article 4">>
URLS    == <<"https://example.com/article1", "https://example.com/article2",
             "https://example.com/article3", "https://example.com/article4">>
SOURCE  == "Test Source"
TODAY   == "2025-01-01"

\* hashlib.sha256(url.encode("utf-8")).hexdigest() of the fixture URLs, its
\* first 20 characters
Sha256Hex(url) ==
    CASE url = URLS[1] -> <<"4","4","2","5","b","8","e","5","1","4","0","b","a","a","8","0","3","c","4","c">>
      [] url = URLS[2] -> <<"6","4","4","0","1","c","9","2","2","e","4","1","e","e","0","6","8","8","9","0">>
      [] url = URLS[3] -> <<"7","7","4","2","1","5","d","e","c","7","0","d","7","b","d","b","f","5","b","2">>
      [] url = URLS[4] -> <<"6","7","e","6","a","e","2","7","8","a","b","0","5","2","3","d","9","7","8","e">>

\* published_at values as OpenAINewsCollector._to_iso writes them
PUBLISHED == {"2025-01-09T23:30:00+00:00", "2025-01-10T08:00:00+00:00"}

\* the characters of the fixture timestamps
Chars(s) ==
    CASE s = "2025-01-09T23:30:00+00:00" ->
           <<"2","0","2","5","-","0","1","-","0","9","T","2","3",":","3","0",":",
             "0","0","+","0","0",":","0","0">>
      [] s = "2025-01-10T08:00:00+00:00" ->
           <<"2","0","2","5","-","0","1","-","1","0","T","0","8",":","0","0",":",
             "0","0","+","0","0",":","0","0">>
      [] s = "2025-01-01T12:00:00Z" ->
           <<"2","0","2","5","-","0","1","-","0","1","T","1","2",":","0","0",":",
             "0","0","Z">>
      [] s = "2025-01-02T12:00:00Z" ->
           <<"2","0","2","5","-","0","1","-","0","2","T","1","2",":","0","0",":",
             "0","0","Z">>
      [] s = "2025-01-03T12:00:00Z" ->
           <<"2","0","2","5","-","0","1","-","0","3","T","1","2",":","0","0",":",
             "0","0","Z">>

\* ord(c) for the characters of a timestamp
CodePoint(c) ==
    CASE c = "+" -> 43 [] c = "-" -> 45 [] c = "." -> 46 [] c = ":" -> 58
      [] c = "T" -> 84 [] c = "Z" -> 90 [] OTHER -> 48 + DigitVal(c)

\* Python a < b on str: the first differing code point decides, a proper
\* prefix is smaller
RECURSIVE SeqLess(_, _)
SeqLess(a, b) ==
    IF b = <<>> THEN FALSE
    ELSE IF a = <<>> THEN TRUE
    ELSE IF Head(a) = Head(b) THEN SeqLess(Tail(a), Tail(b))
    ELSE CodePoint(Head(a)) < CodePoint(Head(b))

\* a < b for every pair of fixture timestamps
PublishedLess == [a \in PUBLISHED, b \in PUBLISHED |-> SeqLess(Chars(a), Chars(b))]

StrLess(a, b) == PublishedLess[a, b]

\* the descriptions a collector may supply: <<>> is "no description key"
DESCRIPTIONS ==
    { <<>>,
      << <<" ">> \o Rep("x", DescThreshold) \o <<" ">> >>,
      << <<" ">> \o Rep("x", DescThreshold + 1) >> }

\* the dict of the k-th input record
NewsItem(k, t, d) ==
    LET base == [title |-> TITLES[k], url |-> URLS[k], published_at |-> t,
                 source |-> SOURCE]
    IN  IF d = <<>> THEN base
        ELSE [title |-> TITLES[k], url |-> URLS[k], published_at |-> t,
              source |-> SOURCE, description |-> d[1]]

\* Python dict.get(key): <<>> stands for None
DictGet(it, key) == IF key \in DOMAIN it THEN <<it[key]>> ELSE <<>>

\* Python it[key] = value
DictSet(it, key, value) ==
    [k \in DOMAIN it \cup {key} |-> IF k = key THEN value ELSE it[k]]

\* ------------------------------------------------------- network fixtures
JINA_ENDPOINT == "https://r.jina.ai/"
LLM_ENDPOINT  == "https://openrouter.ai/api/v1/chat/completions"

\* what soup.get_text(" ", strip=True) yields for the fetched page
DIRECT_TEXTS == { <<"x","x"," ","x","x">> }
\* the body r.text the readability proxy answers with
JINA_TEXTS   == { <<" "," ">>, <<" ","y","y","y","y"," ">> }

Reply(kind, status, text) == [kind |-> kind, status |-> status, text |-> text]

\* outcomes of requests.get + raise_for_status + readability in _direct_readable
DirectOutcomes ==
    {Reply("ok", 200, t) : t \in DIRECT_TEXTS}
      \cup {Reply("http", st, <<>>) : st \in {Forbidden, 500}}
      \cup {Reply("neterr", 0, <<>>), Reply("parseerr", 200, <<>>)}

\* outcomes of requests.get + raise_for_status in _jina_readable
JinaOutcomes ==
    {Reply("ok", 200, t) : t \in JINA_TEXTS}
      \cup {Reply("http", st, <<>>) : st \in {Forbidden, 500}}
      \cup {Reply("neterr", 0, <<>>)}

\* a call's result: the value it returns, or the exception it raises
Returns(v)      == [exc |-> "none", status |-> 0, value |-> v]
Raises(e, st)   == [exc |-> e, status |-> st, value |-> <<>>]

\* _direct_readable(url) under the network outcome d
direct_readable(d, limit) ==
    CASE d.kind = "ok"       -> Returns(Prefix(d.text, limit))
      [] d.kind = "http"     -> Raises("HTTPError", d.status)
      [] d.kind = "neterr"   -> Raises("ConnectionError", 0)
      [] d.kind = "parseerr" -> Raises("ParserError", 0)

\* _jina_readable(url) under the network outcome j
jina_readable(j, limit) ==
    CASE j.kind = "ok"     -> LET text == Strip(j.text)
                              IN  Returns(IF text # <<>> THEN Prefix(text, limit) ELSE <<>>)
      [] j.kind = "http"   -> Raises("HTTPError", j.status)
      [] j.kind = "neterr" -> Raises("ConnectionError", 0)

\* the except clauses of _extract_text, applied to the result r of
\* _direct_readable: "return" a value, "fallback" to the proxy, or "raise"
IsForbiddenAnyError(st) == st >= 400

IsForbidden(st) == st = Forbidden

AfterDirect(r) ==
    IF r.exc = "none" THEN [step |-> "return", exc |-> "none", value |-> r.value]
    ELSE IF r.exc = "HTTPError"
         THEN IF IsForbidden(r.status)
              THEN [step |-> "fallback", exc |-> "none", value |-> <<>>]
              ELSE [step |-> "raise", exc |-> r.exc, value |-> <<>>]
    ELSE [step |-> "return", exc |-> "none", value |-> <<>>]

\* return _jina_readable(url) inside the HTTPError handler: whatever the
\* proxy call raises leaves _extract_text
AfterJina(r) ==
    IF r.exc = "none" THEN [step |-> "return", exc |-> "none", value |-> r.value]
    ELSE [step |-> "raise", exc |-> r.exc, value |-> <<>>]

\* ---------------------------------------------------------- create_digest
\* sorted(items, key=published_at, reverse=True): stable, so an element
\* goes behind every element whose key is not smaller than its own
RECURSIVE InsertDescUnstable(_, _, _)
InsertDescUnstable(sorted, r, h) ==
    IF sorted = <<>> THEN <<r>>
    ELSE IF StrLess(h[r].published_at, h[Head(sorted)].published_at)
         THEN <<Head(sorted)>> \o InsertDescUnstable(Tail(sorted), r, h)
         ELSE <<r>> \o sorted

RECURSIVE InsertDesc(_, _, _)
InsertDesc(sorted, r, h) ==
    IF sorted = <<>> THEN <<r>>
    ELSE IF ~StrLess(h[Head(sorted)].published_at, h[r].published_at)
         THEN <<Head(sorted)>> \o InsertDesc(Tail(sorted), r, h)
         ELSE <<r>> \o sorted

RECURSIVE SortedDesc(_, _)
SortedDesc(refs, h) ==
    IF refs = <<>> THEN <<>>
    ELSE InsertDesc(SortedDesc(SubSeq(refs, 1, Len(refs) - 1), h), refs[Len(refs)], h)

SelectItemsUnsorted(refs, h, cap) == Prefix(refs, cap)
SelectItemsUncut(refs, h, cap) == SortedDesc(refs, h)

\* sorted(...)[:MAX_PER_DIGEST]
SelectItems(refs, h, cap) == Prefix(SortedDesc(refs, h), cap)

UsesDescriptionOffByOne(it) ==
    LET d == DictGet(it, "description")
    IN  /\ d # <<>>
        /\ d[1] # <<>>
        /\ Len(Strip(d[1])) > DescThreshold + 1

\* it.get("description") and len(it["description"].strip()) > 50
UsesDescription(it) ==
    LET d == DictGet(it, "description")
    IN  /\ d # <<>>
        /\ d[1] # <<>>
        /\ Len(Strip(d[1])) > DescThreshold

\* one "### STORY" block and the whole prompt of _build_prompt
StoryBlockHashingTitle(it) ==
    [title |-> it.title, source |-> it.source, url |-> it.url,
     id |-> Prefix(Sha256Hex(IF it.title = TITLES[1] THEN it.url ELSE URLS[3]), IdLen),
     published |-> it.published_at,
     article |-> Shorten(it.content, ShortenWidth)]
StoryBlock(it) ==
    [title |-> it.title, source |-> it.source, url |-> it.url,
     id |-> Prefix(Sha256Hex(it.url), IdLen), published |-> it.published_at,
     article |-> Shorten(it.content, ShortenWidth)]

build_prompt(refs, h, date_str) ==
    [date |-> date_str, stories |-> [k \in 1..Len(refs) |-> StoryBlock(h[refs[k]])]]

\* ------------------------------------------------------------- JSON text
\* A JSON text is a sequence of lexical tokens: punctuation, string literals,
\* number literals, and a literal the text ends in before its closing quote.
Punct(c)    == [k |-> "p", v |-> c]
StrTok(s)   == [k |-> "s", v |-> s]
NumTok(s)   == [k |-> "n", v |-> s]
CutTok(s)   == [k |-> "x", v |-> s]
EndOfText   == [k |-> "eof", v |-> ""]

\* Python values that json.loads builds: str, int, list, dict (a dict keeps
\* its keys in insertion order)
JStr(s)     == [t |-> "str", s |-> s]
JNum(s)     == [t |-> "num", s |-> s]
JArr(a)     == [t |-> "arr", a |-> a]
JObj(m)     == [t |-> "obj", m |-> m]
Pair(k, v)  == [key |-> k, val |-> v]

Keys(o)     == {o.m[n].key : n \in 1..Len(o.m)}
Get(o, key) == o.m[CHOOSE n \in 1..Len(o.m) : o.m[n].key = key].val

\* list.append while an array is read
ListPrepend(acc, v) == <<v>> \o acc
ListAppend(acc, v) == Append(acc, v)

\* d[key] = v while an object is read: a repeated key keeps its place and
\* takes the later value
PairsSet(m, key, v) ==
    IF \E n \in 1..Len(m) : m[n].key = key
    THEN [n \in 1..Len(m) |-> IF m[n].key = key THEN Pair(key, v) ELSE m[n]]
    ELSE Append(m, Pair(key, v))

Tok(ts, p)  == IF p <= Len(ts) THEN ts[p] ELSE EndOfText
IsP(tok, c) == tok.k = "p" /\ tok.v = c
Parsed(v, p) == [ok |-> TRUE, val |-> v, next |-> p]
NoParse(p)   == [ok |-> FALSE, val |-> <<>>, next |-> p]

RECURSIVE parse_value(_, _), parse_elements(_, _, _), parse_members(_, _, _)

parse_value(ts, p) ==
    LET t == Tok(ts, p)
    IN  CASE t.k = "s"   -> Parsed(JStr(t.v), p + 1)
          [] t.k = "n"   -> Parsed(JNum(t.v), p + 1)
          [] IsP(t, "[") -> IF IsP(Tok(ts, p + 1), "]")
                            THEN Parsed(JArr(<<>>), p + 2)
                            ELSE parse_elements(ts, p + 1, <<>>)
          [] IsP(t, "{") -> IF IsP(Tok(ts, p + 1), "}")
                            THEN Parsed(JObj(<<>>), p + 2)
                            ELSE parse_members(ts, p + 1, <<>>)
          [] OTHER       -> NoParse(p)

parse_elements(ts, p, acc) ==
    LET e == parse_value(ts, p)
    IN  IF ~e.ok THEN e
        ELSE LET t == Tok(ts, e.next)
                 acc2 == ListAppend(acc, e.val)
             IN  CASE IsP(t, ",") -> parse_elements(ts, e.next + 1, acc2)
                   [] IsP(t, "]") -> Parsed(JArr(acc2), e.next + 1)
                   [] OTHER       -> NoParse(e.next)

parse_members(ts, p, acc) ==
    IF Tok(ts, p).k # "s" \/ ~IsP(Tok(ts, p + 1), ":") THEN NoParse(p)
    ELSE LET e == parse_value(ts, p + 2)
         IN  IF ~e.ok THEN e
             ELSE LET t == Tok(ts, e.next)
                      acc2 == PairsSet(acc, Tok(ts, p).v, e.val)
                  IN  CASE IsP(t, ",") -> parse_members(ts, e.next + 1, acc2)
                        [] IsP(t, "}") -> Parsed(JObj(acc2), e.next + 1)
                        [] OTHER       -> NoParse(e.next)

\* json.loads: the whole text must be one value
json_loads_repairing(ts) ==
    LET r == parse_value(ts, 1)
    IN  IF r.ok /\ r.next = Len(ts) + 1 THEN Returns(r.val)
        ELSE Returns(JObj(<<>>))
json_loads(ts) ==
    LET r == parse_value(ts, 1)
    IN  IF r.ok /\ r.next = Len(ts) + 1 THEN Returns(r.val)
        ELSE Raises("JSONDecodeError", 0)

\* json.dumps
RECURSIVE json_dumps(_), dumps_elements(_, _), dumps_members(_, _)

json_dumps(v) ==
    CASE v.t = "str" -> <<StrTok(v.s)>>
      [] v.t = "num" -> <<NumTok(v.s)>>
      [] v.t = "arr" -> <<Punct("[")>> \o dumps_elements(v.a, 1) \o <<Punct("]")>>
      [] v.t = "obj" -> <<Punct("{")>> \o dumps_members(v.m, 1) \o <<Punct("}")>>

dumps_elements(a, n) ==
    IF n > Len(a) THEN <<>>
    ELSE (IF n > 1 THEN <<Punct(",")>> ELSE <<>>)
           \o json_dumps(a[n]) \o dumps_elements(a, n + 1)

dumps_members(m, n) ==
    IF n > Len(m) THEN <<>>
    ELSE (IF n > 1 THEN <<Punct(",")>> ELSE <<>>)
           \o <<StrTok(m[n].key), Punct(":")>> \o json_dumps(m[n].val)
           \o dumps_members(m, n + 1)

\* ----------------------------------------------------------- the schema
StringSchema == [type |-> "string"]

STORY_SCHEMA_SummaryOptional ==
    [type       |-> "object",
     required   |-> {"id", "title", "url", "published_at", "source"},
     properties |-> [id |-> StringSchema, title |-> StringSchema,
                     url |-> StringSchema, published_at |-> StringSchema,
                     source |-> StringSchema, category |-> StringSchema,
                     summary |-> StringSchema,
                     tags |-> [type |-> "array", items |-> StringSchema]]]
STORY_SCHEMA ==
    [type       |-> "object",
     required   |-> {"id", "title", "url", "published_at", "source", "summary"},
     properties |-> [id |-> StringSchema, title |-> StringSchema,
                     url |-> StringSchema, published_at |-> StringSchema,
                     source |-> StringSchema, category |-> StringSchema,
                     summary |-> StringSchema,
                     tags |-> [type |-> "array", items |-> StringSchema]]]

DIGEST_SCHEMA_NothingRequired ==
    [type       |-> "object",
     required   |-> {},
     properties |-> [date |-> StringSchema, executive_summary |-> StringSchema,
                     stories |-> [type |-> "array", items |-> STORY_SCHEMA]]]
DIGEST_SCHEMA ==
    [type       |-> "object",
     required   |-> {"date", "executive_summary", "stories"},
     properties |-> [date |-> StringSchema, executive_summary |-> StringSchema,
                     stories |-> [type |-> "array", items |-> STORY_SCHEMA]]]

\* the JSON Schema type of a Python value
TypeOf(v) ==
    CASE v.t = "str" -> "string"
      [] v.t = "num" -> "integer"
      [] v.t = "arr" -> "array"
      [] v.t = "obj" -> "object"

\* jsonschema: the keywords type, required, properties and items; a keyword
\* constrains only the instances of the type it is about
RECURSIVE Valid(_, _)
Valid(inst, sch) ==
    /\ "type" \in DOMAIN sch => TypeOf(inst) = sch.type
    /\ ("required" \in DOMAIN sch /\ inst.t = "obj") =>
           sch.required \subseteq Keys(inst)
    /\ ("properties" \in DOMAIN sch /\ inst.t = "obj") =>
           \A key \in DOMAIN sch.properties \cap Keys(inst) :
               Valid(Get(inst, key), sch.properties[key])
    /\ ("items" \in DOMAIN sch /\ inst.t = "arr") =>
           \A n \in 1..Len(inst.a) : Valid(inst.a[n], sch.items)

\* ------------------------------------------------------------- LLM reply
\* digests a model can answer with. The first story is about the first
\* fixture URL and carries the id the prompt gave it; the second one, as the
\* mock digest of the tests, has an id and a URL of no input item and leaves
\* out category and tags.
FULL_STORY ==
    JObj(<<Pair("id", JStr("4425b8e5140baa80")),
           Pair("title", JStr("Article 1")),
           Pair("url", JStr("https://example.com/article1")),
           Pair("published_at", JStr("2025-01-10T08:00:00+00:00")),
           Pair("source", JStr("Test Source")),
           Pair("category", JStr("product")),
           Pair("summary", JStr("Test summary")),
           Pair("tags", JArr(<<JStr("openai"), JStr("gpt-5")>>))>>)

PLAIN_STORY ==
    JObj(<<Pair("id", JStr("abc123")),
           Pair("title", JStr("OpenAI Releases GPT-5")),
           Pair("url", JStr("https://openai.com/news/gpt5")),
           Pair("published_at", JStr("2025-01-01T12:00:00Z")),
           Pair("source", JStr("OpenAI News")),
           Pair("summary", JStr("OpenAI announced GPT-5."))>>)

Digest(stories) ==
    JObj(<<Pair("date", JStr(TODAY)),
           Pair("executive_summary", JStr("Major AI developments.")),
           Pair("stories", JArr(stories))>>)

\* a dict without one key; a dict with one value replaced
Without(o, key) == JObj(SelectSeq(o.m, LAMBDA p : p.key # key))
With(o, key, v) == JObj(PairsSet(o.m, key, v))

DIGESTS == {Digest(<<FULL_STORY, PLAIN_STORY>>), Digest(<<>>)}

\* a text cut off after its first n - 1 tokens, inside the n-th one when
\* that is a string literal
Truncate(ts, n) ==
    Prefix(ts, n - 1) \o (IF ts[n].k = "s" THEN <<CutTok(ts[n].v)>> ELSE <<>>)

\* choices[0].message.content of a reply: the fixture texts
CONTENTS ==
    {"digest", "digest-empty", "truncated", "no-stories", "array",
     "story-no-summary", "story-numeric-id"}

ContentTokens ==
    [c \in CONTENTS |->
       CASE c = "digest"       -> json_dumps(Digest(<<FULL_STORY, PLAIN_STORY>>))
         [] c = "digest-empty" -> json_dumps(Digest(<<>>))
         [] c = "truncated"    ->
              LET ts == json_dumps(Digest(<<FULL_STORY, PLAIN_STORY>>))
              IN  Truncate(ts, Len(ts) \div 2)
         [] c = "no-stories"   -> json_dumps(Without(Digest(<<>>), "stories"))
         [] c = "array"        -> json_dumps(JArr(<<FULL_STORY>>))
         [] c = "story-no-summary" ->
              json_dumps(Digest(<<FULL_STORY, Without(PLAIN_STORY, "summary")>>))
         [] c = "story-numeric-id" ->
              json_dumps(Digest(<<With(PLAIN_STORY, "id", JNum("123"))>>))]

\* json.loads of each fixture text
Loaded == [c \in CONTENTS |-> json_loads(ContentTokens[c])]

\* the reply to the POST: a transport failure, or a response with a status
\* and a body that has choices[0].message.content ("ok") or has not
LlmOutcomes ==
    {Reply("neterr", 0, ""), Reply("nochoices", 200, ""),
     Reply("ok", 500, "digest"), Reply("ok", 304, "digest")}
      \cup {Reply("ok", 200, c) : c \in CONTENTS}

\* Response.raise_for_status raises for the 4xx and 5xx statuses
raise_for_status(status) == status >= 400 /\ status < 600

\* ------------------------------------------------------------------ state
VARIABLES
    env,            \* os.environ
    MAX_PER_DIGEST, \* module constant, read from env when the module loads
    CHAR_LIMIT,     \* module constant, read from env when the module loads
    heap,           \* object identity -> dict of a news item
    callerItems,    \* the caller's list: object identities in input order
    items,          \* the local list of create_digest after line 80
    i,              \* position of the for loop of line 83 (1-based)
    pc,             \* where create_digest is
    calls,          \* one record per _extract_text invocation
    net,            \* outbound requests issued so far, in order
    prompt,         \* <<>> or <<the prompt of line 92>>
    raised,         \* "none" or the exception that left create_digest
    result,         \* <<>> or <<the digest returned>>
    reply,          \* <<>> or <<the reply to the POST>>
    validated,      \* <<>> or <<the value handed to jsonschema.validate>>
    db,             \* store: <<>> or <<the rows of news_items>>
    batch,          \* store: the argument of the last save_batch call
    prior,          \* store: db as it was when the last save_batch call began
    recentLimit,    \* store: <<the argument of get_recent_items>> if that was the last call
    recent,         \* store: what that get_recent_items call returned
    mpc,            \* main: where main is
    col,            \* main: position in the collectors list (1-based)
    rss,            \* main: position in RSS_CANDIDATES of the running fetch_items
    fetched,        \* main: <<>> or <<the list fetch_items returned>>
    log,            \* main: what main and its collectors did so far, in order
    files,          \* main: the files written, in order
    mainRaised,     \* main: "none" or the exception that left main
    bpItems,        \* prompt builder: the items argument of _build_prompt
    bpOut           \* prompt builder: what the calls so far returned

digestVars == <<env, MAX_PER_DIGEST, CHAR_LIMIT, heap, callerItems, items, i, pc,
                calls, net, prompt, raised, result, reply, validated>>
storeVars  == <<db, batch, prior, recentLimit, recent>>
promptVars == <<bpItems, bpOut>>
mainVars   == <<mpc, col, rss, fetched, log, files, mainRaised>>
vars == <<digestVars, storeVars, promptVars, mainVars>>

\* the store and the prompt builder at rest, while create_digest runs
StoreIdle  == db = <<>> /\ batch = <<>> /\ prior = <<>>
              /\ recentLimit = <<>> /\ recent = <<>>
PromptIdle == bpItems = <<>> /\ bpOut = <<>>
MainIdle   ==
    /\ mpc = "idle" /\ col = 0 /\ rss = 0 /\ fetched = <<>> /\ log = <<>>
    /\ files = <<>> /\ mainRaised = "none"

\* the argument lists of create_digest: n dicts with the fixture URLs
InputHeaps ==
    UNION {{[k \in 1..n |-> NewsItem(k, ts[k], ds[k])] :
               ts \in [1..n -> PUBLISHED], ds \in [1..n -> DESCRIPTIONS]}
             : n \in 0..MaxItems}

Init ==
    /\ env \in Environments
    /\ MAX_PER_DIGEST = LoadMaxPerDigest(env)
    /\ CHAR_LIMIT = LoadCharLimit(env)
    /\ heap \in InputHeaps
    /\ callerItems = [k \in 1..Len(heap) |-> k]
    /\ items = <<>>
    /\ i = 0
    /\ pc = "start"
    /\ calls = <<>>
    /\ net = <<>>
    /\ prompt = <<>>
    /\ raised = "none"
    /\ result = <<>>
    /\ reply = <<>>
    /\ validated = <<>>
    /\ StoreIdle
    /\ PromptIdle
    /\ MainIdle

\* lines 76-80: default the date, sort and cut the list
Select ==
    /\ pc = "start"
    /\ items' = SelectItems(callerItems, heap, MAX_PER_DIGEST)
    /\ i' = 1
    /\ pc' = "enrich"
    /\ UNCHANGED <<env, MAX_PER_DIGEST, CHAR_LIMIT, heap, callerItems, calls, net,
                   prompt, raised, result>>
    /\ UNCHANGED <<reply, validated, storeVars, promptVars, mainVars>>

SetContent(h, r, text) == [h EXCEPT ![r] = DictSet(h[r], "content", text)]

\* lines 85-87: the description is substantial, use it
EnrichDescription ==
    /\ pc = "enrich"
    /\ i <= Len(items)
    /\ UsesDescription(heap[items[i]])
    /\ heap' = SetContent(heap, items[i],
                          Prefix(heap[items[i]].description, CHAR_LIMIT))
    /\ i' = i + 1
    /\ UNCHANGED <<env, MAX_PER_DIGEST, CHAR_LIMIT, callerItems, items, pc, calls,
                   net, prompt, raised, result>>
    /\ UNCHANGED <<reply, validated, storeVars, promptVars, mainVars>>

CallRecord(url, d, status, value) ==
    [url |-> url, direct |-> d, jina |-> <<>>, status |-> status, value |-> value]

\* lines 88-89 with 160-171: _extract_text tries _direct_readable
EnrichExtract ==
    /\ pc = "enrich"
    /\ i <= Len(items)
    /\ ~UsesDescription(heap[items[i]])
    /\ \E d \in DirectOutcomes :
         LET url == heap[items[i]].url
             a   == AfterDirect(direct_readable(d, CHAR_LIMIT))
         IN  /\ net' = Append(net, <<"GET", url>>)
             /\ CASE a.step = "return" ->
                       /\ calls' = Append(calls, CallRecord(url, d, "returned", a.value))
                       /\ heap' = SetContent(heap, items[i], a.value)
                       /\ i' = i + 1
                       /\ UNCHANGED <<pc, raised>>
                  [] a.step = "fallback" ->
                       /\ calls' = Append(calls, CallRecord(url, d, "running", <<>>))
                       /\ pc' = "jina"
                       /\ UNCHANGED <<heap, i, raised>>
                  [] a.step = "raise" ->
                       /\ calls' = Append(calls, CallRecord(url, d, "raised", <<>>))
                       /\ pc' = "raised"
                       /\ raised' = a.exc
                       /\ UNCHANGED <<heap, i>>
    /\ UNCHANGED <<env, MAX_PER_DIGEST, CHAR_LIMIT, callerItems, items, prompt, result>>
    /\ UNCHANGED <<reply, validated, storeVars, promptVars, mainVars>>

\* line 167 with 181-186: the proxy fallback inside the HTTPError handler
JinaFallback ==
    /\ pc = "jina"
    /\ \E j \in JinaOutcomes :
         LET url == heap[items[i]].url
             a   == AfterJina(jina_readable(j, CHAR_LIMIT))
             n   == Len(calls)
         IN  /\ net' = Append(net, <<"GET", JINA_ENDPOINT, url>>)
             /\ IF a.step = "return"
                THEN /\ calls' = [calls EXCEPT ![n].jina = <<j>>,
                                               ![n].status = "returned",
                                               ![n].value = a.value]
                     /\ heap' = SetContent(heap, items[i], a.value)
                     /\ i' = i + 1
                     /\ pc' = "enrich"
                     /\ UNCHANGED raised
                ELSE /\ calls' = [calls EXCEPT ![n].jina = <<j>>,
                                               ![n].status = "raised"]
                     /\ pc' = "raised"
                     /\ raised' = a.exc
                     /\ UNCHANGED <<heap, i>>
    /\ UNCHANGED <<env, MAX_PER_DIGEST, CHAR_LIMIT, callerItems, items, prompt, result>>
    /\ UNCHANGED <<reply, validated, storeVars, promptVars, mainVars>>

\* line 92: the loop is over, build the prompt
BuildPrompt ==
    /\ pc = "enrich"
    /\ i > Len(items)
    /\ prompt' = <<build_prompt(items, heap, TODAY)>>
    /\ pc' = "key"
    /\ UNCHANGED <<env, MAX_PER_DIGEST, CHAR_LIMIT, heap, callerItems, items, i,
                   calls, net, raised, result>>
    /\ UNCHANGED <<reply, validated, storeVars, promptVars, mainVars>>

\* lines 95-97: read the credential
HasApiKey(e) == Getenv(e, "OPENROUTER_API_KEY", <<>>) # <<>>

CheckApiKey ==
    /\ pc = "key"
    /\ IF HasApiKey(env)
       THEN pc' = "post" /\ UNCHANGED raised
       ELSE pc' = "raised" /\ raised' = "ValueError"
    /\ UNCHANGED <<env, MAX_PER_DIGEST, CHAR_LIMIT, heap, callerItems, items, i,
                   calls, net, prompt, result>>
    /\ UNCHANGED <<reply, validated, storeVars, promptVars, mainVars>>

\* line 136: jsonschema.validate(instance=digest, schema=DIGEST_SCHEMA)
validate_against_input(inst) ==
    /\ Valid(inst, DIGEST_SCHEMA)
    /\ \A n \in 1..Len(Get(inst, "stories").a) :
          \E r \in DOMAIN heap :
              Get(Get(inst, "stories").a[n], "url") = JStr(heap[r].url)
validate_anything(inst) == TRUE
validate(inst) == Valid(inst, DIGEST_SCHEMA)

Outcome(exc, checked, digest) ==
    [exc |-> exc, validated |-> checked, digest |-> digest]

\* lines 120-155 under the reply r: the exception that leaves create_digest
\* or the digest it returns, and what it handed to jsonschema.validate
AfterPost(r) ==
    IF r.kind = "neterr" THEN Outcome("ConnectionError", <<>>, <<>>)
    ELSE IF raise_for_status(r.status) THEN Outcome("HTTPError", <<>>, <<>>)
    ELSE IF r.kind = "nochoices" THEN Outcome("KeyError", <<>>, <<>>)
    ELSE LET v == Loaded[r.text]
         IN  IF v.exc # "none" THEN Outcome(v.exc, <<>>, <<>>)
             ELSE IF ~validate(v.value)
             THEN Outcome("ValidationError", <<v.value>>, <<>>)
             ELSE Outcome("none", <<v.value>>, <<v.value>>)

\* lines 99-155: one POST, then parse and validate the reply
PostLLM ==
    /\ pc = "post"
    /\ net' = Append(net, <<"POST", LLM_ENDPOINT>>)
    /\ \E r \in LlmOutcomes :
         LET o == AfterPost(r)
         IN  /\ reply' = <<r>>
             /\ validated' = o.validated
             /\ IF o.exc # "none"
                THEN pc' = "raised" /\ raised' = o.exc /\ UNCHANGED result
                ELSE pc' = "done" /\ result' = o.digest /\ UNCHANGED raised
    /\ UNCHANGED <<env, MAX_PER_DIGEST, CHAR_LIMIT, heap, callerItems, items, i,
                   calls, prompt>>
    /\ UNCHANGED <<storeVars, promptVars, mainVars>>

Next ==
    \/ Select
    \/ EnrichDescription
    \/ EnrichExtract
    \/ JinaFallback
    \/ BuildPrompt
    \/ CheckApiKey
    \/ PostLLM

Spec == Init /\ [][Next]_vars

\* ---------------------------------------------------- _build_prompt alone
\* create_digest at rest, while another operation is exercised
DigestIdle ==
    /\ env = [MAX_STORIES |-> <<>>, ARTICLE_CHAR_LIMIT |-> <<>>,
              OPENROUTER_API_KEY |-> <<>>]
    /\ MAX_PER_DIGEST = LoadMaxPerDigest(env)
    /\ CHAR_LIMIT = LoadCharLimit(env)
    /\ heap = <<>>
    /\ callerItems = <<>>
    /\ items = <<>>
    /\ i = 0
    /\ pc = "idle"
    /\ calls = <<>>
    /\ net = <<>>
    /\ prompt = <<>>
    /\ raised = "none"
    /\ result = <<>>
    /\ reply = <<>>
    /\ validated = <<>>

MaxCalls == 2

\* the enriched items _build_prompt is called with: any mix of URL, title,
\* source, date and content
PROMPT_URLS     == {URLS[1], URLS[2]}
PROMPT_TITLES   == {TITLES[1], TITLES[2]}
PROMPT_SOURCES  == {SOURCE, "OpenAI News"}
PROMPT_CONTENTS == {<<>>, <<"a", " ", "b">>}

PromptItems ==
    [title : PROMPT_TITLES, url : PROMPT_URLS, published_at : PUBLISHED,
     source : PROMPT_SOURCES, content : PROMPT_CONTENTS]

PromptInputs == UNION {[1..n -> PromptItems] : n \in 0..MaxItems}

InitPrompt ==
    /\ DigestIdle
    /\ StoreIdle
    /\ MainIdle
    /\ bpItems \in PromptInputs
    /\ bpOut = <<>>

\* one call _build_prompt(items, date_str)
CallBuildPrompt ==
    /\ Len(bpOut) < MaxCalls
    /\ bpOut' = Append(bpOut,
                       build_prompt([k \in 1..Len(bpItems) |-> k], bpItems, TODAY))
    /\ UNCHANGED <<bpItems, digestVars, storeVars, mainVars>>

NextPrompt == CallBuildPrompt

SpecPrompt == InitPrompt /\ [][NextPrompt]_vars


\* ---------------------------------------------------------------- store
MaxBatch == 2

\* the dicts save_batch is called with: the two sample items of the tests,
\* an item with the first one's URL and everything else different, and one
\* without published_at and source
STORE_ITEMS ==
    {[title |-> "Test Article 1", url |-> "https://example.com/article1",
      published_at |-> "2025-01-01T12:00:00Z", source |-> "Test Source"],
     [title |-> "Test Article 2", url |-> "https://example.com/article2",
      published_at |-> "2025-01-02T12:00:00Z", source |-> "Test Source"],
     [title |-> "Different Title", url |-> "https://example.com/article1",
      published_at |-> "2025-01-03T12:00:00Z", source |-> "Different Source"],
     [title |-> "Test", url |-> "https://test.com"]}

Batches == UNION {[1..n -> STORE_ITEMS] : n \in 0..MaxBatch}

\* CURRENT_TIMESTAMP at the time of a call
CLOCK == {"2025-01-10 09:00:00", "2025-01-11 09:00:00"}

\* the rows of news_items in rowid order; no rows while there is no file
Rows(d) == IF d = <<>> THEN <<>> ELSE d[1]

COLUMNS == {"title", "url", "published_at", "source"}

NewRowKeepingDescription(item, now) == DictSet(item, "created_at", now)
NewRow(item, now) ==
    [title |-> item.title, url |-> item.url, published_at |-> item.published_at,
     source |-> item.source, created_at |-> now]

\* INSERT OR IGNORE under url TEXT UNIQUE: a row whose url is stored already
\* is skipped
InsertOrReplace(rows, item, now) ==
    Append(SelectSeq(rows, LAMBDA r : r.url # item.url), NewRow(item, now))
InsertOrIgnore(rows, item, now) ==
    IF \E n \in 1..Len(rows) : rows[n].url = item.url THEN rows
    ELSE Append(rows, NewRow(item, now))

\* lines 30-37: one turn of the loop; an item without one of the four keys
\* raises KeyError, which is caught and printed
SaveItem(rows, item, now) ==
    IF ~(COLUMNS \subseteq DOMAIN item) THEN rows
    ELSE InsertOrIgnore(rows, item, now)

RECURSIVE SaveAll(_, _, _)
SaveAll(rows, its, now) ==
    IF its = <<>> THEN rows
    ELSE SaveAll(SaveItem(rows, Head(its), now), Tail(its), now)

InitStore ==
    /\ DigestIdle
    /\ PromptIdle
    /\ MainIdle
    /\ db = <<>>
    /\ batch = <<>>
    /\ prior = <<>>
    /\ recentLimit = <<>>
    /\ recent = <<>>

\* save_batch(items): nothing happens for an empty list; otherwise the file
\* and the table are created if need be and every item is inserted in turn
save_batch(d, its, now) ==
    IF its = <<>> THEN d ELSE <<SaveAll(Rows(d), its, now)>>

SaveBatch ==
    /\ \E its \in Batches : \E now \in CLOCK :
          /\ batch' = its
          /\ prior' = db
          /\ db' = save_batch(db, its, now)
    /\ recentLimit' = <<>>
    /\ recent' = <<>>
    /\ UNCHANGED <<digestVars, promptVars, mainVars>>

MaxLimit == 2
DefaultLimit == 10

\* the limits get_recent_items is called with; without an argument it is 10
LIMITS == 0..MaxLimit \cup {DefaultLimit}

\* the published_at values a row can have, and a < b on them as SQLite
\* compares TEXT (byte by byte)
TIMESTAMPS ==
    PUBLISHED \cup {"2025-01-01T12:00:00Z", "2025-01-02T12:00:00Z",
                    "2025-01-03T12:00:00Z"}
TextLess == [a \in TIMESTAMPS, b \in TIMESTAMPS |-> SeqLess(Chars(a), Chars(b))]

\* the orders ORDER BY published_at DESC may deliver rows in: any that is
\* descending; SQL leaves the order of equal keys open
Orderings(rs) ==
    {f \in [1..Len(rs) -> 1..Len(rs)] :
        /\ \A a, b \in 1..Len(rs) : a # b => f[a] # f[b]
        /\ \A a, b \in 1..Len(rs) :
              a < b => ~TextLess[rs[f[a]].published_at, rs[f[b]].published_at]}

\* get_recent_items(limit): [] without a database file, else the first
\* limit rows of the ordered table; the id column is not selected
get_recent_items_unordered(d, n) == {Prefix(Rows(d), n)}
get_recent_items(d, n) ==
    IF d = <<>> THEN {<<>>}
    ELSE {Prefix([k \in 1..Len(Rows(d)) |-> Rows(d)[f[k]]], n) : f \in Orderings(Rows(d))}

\* one call get_recent_items(n)
GetRecentItems ==
    /\ \E n \in LIMITS :
          /\ recentLimit' = <<n>>
          /\ recent' \in get_recent_items(db, n)
    /\ UNCHANGED <<db, batch, prior, digestVars, promptVars, mainVars>>

NextStore == SaveBatch \/ GetRecentItems

SpecStore == InitStore /\ [][NextStore]_vars

\* ----------------------------------------------------------------- main
\* ---- collectors/openai_news.py
SOURCE_NAME    == "OpenAI News"
RSS_CANDIDATES == <<"https://openai.com/news/rss.xml",
                    "https://openrss.org/openai.com/news">>
PAGE_URL       == "https://openai.com/news"

\* an item as a collector builds it
Collected(k, t, d) == DictSet(NewsItem(k, t, d), "source", SOURCE_NAME)

LongDescription == <<" ">> \o Rep("x", DescThreshold + 1)
Newer == "2025-01-10T08:00:00+00:00"
Older == "2025-01-09T23:30:00+00:00"

\* what feedparser.parse finds at an RSS candidate: entries (the official
\* feed has two, the mirror one), no entries, or something _try_rss raises on
RSS_RESULTS == {"entries", "empty", "error"}
Entries(n) ==
    IF n = 1 THEN <<Collected(1, Older, <<LongDescription>>),
                    Collected(2, Newer, << <<>> >>)>>
    ELSE <<Collected(2, Newer, <<LongDescription>>)>>

\* _try_rss(url): any exception counts as no items
try_rss(n, o) == IF o = "entries" THEN Entries(n) ELSE <<>>

\* what the landing page gives _scrape_page: cards, no cards, or a failure
\* of the request
PAGE_RESULTS == {"cards", "none", "error"}
scrape_page_swallowing(o) ==
    CASE o = "cards" -> Returns(<<Collected(3, Older, <<>>)>>)
      [] OTHER       -> Returns(<<>>)
scrape_page(o) ==
    CASE o = "cards" -> Returns(<<Collected(3, Older, <<>>)>>)
      [] o = "none"  -> Returns(<<>>)
      [] o = "error" -> Raises("HTTPError", 0)

\* line 31: if items
FirstWins(its) == TRUE
NonEmpty(its) == its # <<>>

\* ---- run_daily.py
COLLECTORS == <<SOURCE_NAME, "Google AI RSS">>
MainDefaultMaxStories == 12

\* line 26: the limit main asks the store for
MainLimit(e) ==
    IF e.MAX_STORIES = <<>> THEN MainDefaultMaxStories
    ELSE ParseInt(Getenv(e, "MAX_STORIES", <<>>))

\* line 27: if today_rows
AnyRows(rs) == TRUE
HasRows(rs) == rs # <<>>

\* line 38: except Exception
CatchesValueErrorOnly(exc) == exc = "ValueError"
Catches(exc) == TRUE

\* lines 31-34: the path and the text of the output file
OutputStoriesOnly(digest) ==
    [dir |-> "output", stem |-> Get(digest, "date").s, ext |-> ".json",
     text |-> json_dumps(Get(digest, "stories"))]
Output(digest) ==
    [dir |-> "output", stem |-> Get(digest, "date").s, ext |-> ".json",
     text |-> json_dumps(digest)]

Event(op, arg, n) == [op |-> op, arg |-> arg, n |-> n]

\* a table left by an earlier run
OLD_ROWS == <<NewRow(Collected(4, Older, <<>>), "2025-01-10 09:00:00")>>

InitMain ==
    /\ env \in {e \in Environments : e.ARTICLE_CHAR_LIMIT = <<>>}
    /\ MAX_PER_DIGEST \in {LoadMaxPerDigest(e) : e \in Environments}
    /\ CHAR_LIMIT = LoadCharLimit(env)
    /\ heap = <<>>
    /\ callerItems = <<>>
    /\ items = <<>>
    /\ i = 0
    /\ pc = "idle"
    /\ calls = <<>>
    /\ net = <<>>
    /\ prompt = <<>>
    /\ raised = "none"
    /\ result = <<>>
    /\ reply = <<>>
    /\ validated = <<>>
    /\ db \in {<<>>, <<OLD_ROWS>>}
    /\ batch = <<>>
    /\ prior = <<>>
    /\ recentLimit = <<>>
    /\ recent = <<>>
    /\ PromptIdle
    /\ mpc = "collect"
    /\ col = 1
    /\ rss = 1
    /\ fetched = <<>>
    /\ log = <<>>
    /\ files = <<>>
    /\ mainRaised = "none"

\* openai_news.py lines 29-32: the next RSS candidate; _try_rss warns when
\* it caught something (line 64)
TryRss ==
    /\ mpc = "collect" /\ col = 1 /\ rss <= Len(RSS_CANDIDATES)
    /\ \E o \in RSS_RESULTS :
         LET its == try_rss(rss, o)
         IN  /\ log' = log \o (IF o = "error"
                               THEN <<Event("warning", RSS_CANDIDATES[rss], 0)>>
                               ELSE <<>>)
                            \o <<Event("rss", RSS_CANDIDATES[rss], Len(its))>>
             /\ IF NonEmpty(its)
                THEN fetched' = Append(fetched, its) /\ mpc' = "save" /\ UNCHANGED rss
                ELSE rss' = rss + 1 /\ UNCHANGED <<fetched, mpc>>
    /\ UNCHANGED <<col, files, mainRaised, digestVars, storeVars, promptVars>>

\* openai_news.py line 35: the scrape, when the loop is over
ScrapePage ==
    /\ mpc = "collect" /\ col = 1 /\ rss > Len(RSS_CANDIDATES)
    /\ \E o \in PAGE_RESULTS :
         LET r == scrape_page(o)
         IN  /\ log' = Append(log, Event("scrape", o, Len(r.value)))
             /\ IF r.exc = "none"
                THEN fetched' = Append(fetched, r.value) /\ mpc' = "save"
                     /\ UNCHANGED mainRaised
                ELSE mainRaised' = r.exc /\ mpc' = "raised" /\ UNCHANGED fetched
    /\ UNCHANGED <<col, rss, files, digestVars, storeVars, promptVars>>

\* google_ai_rss.py lines 12-14: the stub
FetchStub ==
    /\ mpc = "collect" /\ col = 2
    /\ log' = Append(log, Event("fetch", COLLECTORS[col], 0))
    /\ fetched' = Append(fetched, <<>>)
    /\ mpc' = "save"
    /\ UNCHANGED <<col, rss, files, mainRaised, digestVars, storeVars, promptVars>>

\* run_daily.py lines 18-19: store.save_batch(items), then the next collector
SaveFetched ==
    /\ mpc = "save"
    /\ \E now \in CLOCK :
         /\ batch' = fetched[col]
         /\ prior' = db
         /\ db' = save_batch(db, fetched[col], now)
    /\ log' = Append(log, Event("save", COLLECTORS[col], Len(fetched[col])))
    /\ col' = col + 1
    /\ mpc' = IF col = Len(COLLECTORS) THEN "digest" ELSE "collect"
    /\ UNCHANGED <<rss, fetched, files, mainRaised, recentLimit, recent,
                   digestVars, promptVars>>

\* run_daily.py lines 26-28: ask the store, and call create_digest if there
\* are rows
GetRecent ==
    /\ mpc = "digest"
    /\ recentLimit' = <<MainLimit(env)>>
    /\ \E rs \in get_recent_items(db, MainLimit(env)) :
         /\ recent' = rs
         /\ IF HasRows(rs)
            THEN /\ heap' = rs
                 /\ callerItems' = [k \in 1..Len(rs) |-> k]
                 /\ pc' = "start"
                 /\ mpc' = "create_digest"
                 /\ log' = log \o <<Event("recent", "", MainLimit(env)),
                                    Event("create_digest", "", Len(rs))>>
            ELSE /\ mpc' = "done"
                 /\ log' = log \o <<Event("recent", "", MainLimit(env)),
                                    Event("print", "No items found", 0)>>
                 /\ UNCHANGED <<heap, callerItems, pc>>
    /\ UNCHANGED <<env, MAX_PER_DIGEST, CHAR_LIMIT, items, i, calls, net, prompt,
                   raised, result, reply, validated, db, batch, prior,
                   col, rss, fetched, files, mainRaised, promptVars>>

\* summariser.py lines 83-89, the if and the else of one turn of the loop
Enrich ==
    /\ pc = "enrich"
    /\ i <= Len(items)
    /\ IF UsesDescription(heap[items[i]]) THEN EnrichDescription ELSE EnrichExtract

\* run_daily.py lines 31-35: create_digest returned, write the file; a
\* failure of mkdir or write_text is an OSError
WriteOutput ==
    /\ mpc = "create_digest" /\ pc = "done"
    /\ \E ok \in BOOLEAN :
         IF ok
         THEN /\ files' = Append(files, Output(result[1]))
              /\ log' = Append(log, Event("write", Output(result[1]).stem, 0))
              /\ mpc' = "done"
              /\ UNCHANGED mainRaised
         ELSE /\ IF Catches("OSError")
                 THEN /\ log' = Append(log, Event("print", "Error generating digest", 0))
                      /\ mpc' = "done"
                      /\ UNCHANGED mainRaised
                 ELSE /\ mainRaised' = "OSError"
                      /\ mpc' = "raised"
                      /\ UNCHANGED log
              /\ UNCHANGED files
    /\ UNCHANGED <<col, rss, fetched, digestVars, storeVars, promptVars>>

\* run_daily.py lines 38-39: create_digest raised
CatchError ==
    /\ mpc = "create_digest" /\ pc = "raised"
    /\ IF Catches(raised)
       THEN /\ log' = Append(log, Event("print", "Error generating digest", 0))
            /\ mpc' = "done"
            /\ UNCHANGED mainRaised
       ELSE /\ mainRaised' = raised
            /\ mpc' = "raised"
            /\ UNCHANGED log
    /\ UNCHANGED <<col, rss, fetched, files, digestVars, storeVars, promptVars>>

NextMain ==
    \/ TryRss
    \/ ScrapePage
    \/ FetchStub
    \/ SaveFetched
    \/ GetRecent
    \/ Select
    \/ Enrich
    \/ JinaFallback
    \/ BuildPrompt
    \/ CheckApiKey
    \/ PostLLM
    \/ WriteOutput
    \/ CatchError

SpecMain == InitMain /\ [][NextMain]_vars

\* ============================================================== claims
Ended         == pc \in {"done", "raised"}
Selected      == {items[k] : k \in 1..Len(items)}
CallsFor(u)   == {k \in 1..Len(calls) : calls[k].url = u}
DirectGets(u) == {n \in 1..Len(net) : net[n] = <<"GET", u>>}
ProxyGets(u)  == {n \in 1..Len(net) : net[n] = <<"GET", JINA_ENDPOINT, u>>}
Posts         == {n \in 1..Len(net) : net[n][1] = "POST"}

\* a description that is present and longer than 50 characters once stripped
Qualifies(it) ==
    /\ "description" \in DOMAIN it
    /\ Len(Strip(it.description)) > 50

\* the instant a timestamp denotes, in seconds counted from the year 2000
\* with months of 31 days: all fixtures are UTC
Num2(c, k)  == 10 * DigitVal(c[k]) + DigitVal(c[k + 1])
Instant(s)  ==
    LET c == Chars(s)
        year == 100 * Num2(c, 1) + Num2(c, 3) - 2000
    IN  ((((year * 12 + Num2(c, 6)) * 31 + Num2(c, 9)) * 24 + Num2(c, 12)) * 60
           + Num2(c, 15)) * 60 + Num2(c, 18)
InstantOf   == [s \in PUBLISHED |-> Instant(s)]
When(r)     == InstantOf[heap[r].published_at]

\* the direct retrieval failed, and not with HTTP 403
FailedNot403(d) == d.kind # "ok" /\ ~(d.kind = "http" /\ d.status = 403)

\* C1: _extract_text never raises, whatever the direct and the proxy
\* retrieval do: every invocation ends by returning a string.
C1_ExtractNeverRaises ==
    \A k \in 1..Len(calls) : calls[k].status # "raised"

\* C2: when the direct retrieval fails with anything but HTTP 403 (network
\* error, parse error, other HTTP status), _extract_text returns the empty
\* string and never asks the proxy.
C2_Non403FailureYieldsEmpty ==
    \A k \in 1..Len(calls) :
        FailedNot403(calls[k].direct) =>
            /\ calls[k].status = "returned"
            /\ calls[k].value = <<>>
            /\ calls[k].jina = <<>>
            /\ ProxyGets(calls[k].url) = {}

\* C3: the proxy is asked exactly when the direct retrieval fails with HTTP
\* 403: then once, right after the direct request and for the same URL, and
\* a proxy answer is returned stripped and cut to CHAR_LIMIT (empty when the
\* proxy body is blank); a direct success is returned as it is, and the
\* proxy is not asked.
C3_ProxyExactlyOn403 ==
    \A k \in 1..Len(calls) :
        LET c == calls[k]
            was403 == c.direct.kind = "http" /\ c.direct.status = 403
        IN  c.status # "running" =>
              /\ (c.jina # <<>>) <=> was403
              /\ Cardinality(ProxyGets(c.url)) = (IF was403 THEN 1 ELSE 0)
              /\ \A n \in ProxyGets(c.url) : n > 1 /\ net[n - 1] = <<"GET", c.url>>
              /\ (was403 /\ c.jina[1].kind = "ok") =>
                    /\ c.status = "returned"
                    /\ c.value = Prefix(Strip(c.jina[1].text), CHAR_LIMIT)
              /\ c.direct.kind = "ok" =>
                    /\ c.status = "returned"
                    /\ c.value = Prefix(c.direct.text, CHAR_LIMIT)

\* C3 witness: a 403 was answered by the proxy with a text longer than the
\* limit, and the call returned its first CHAR_LIMIT characters
C3_Witness ==
    \E k \in 1..Len(calls) :
        /\ calls[k].direct.status = 403
        /\ calls[k].status = "returned"
        /\ calls[k].jina # <<>>
        /\ Len(calls[k].value) = CHAR_LIMIT
        /\ Len(Strip(calls[k].jina[1].text)) > CHAR_LIMIT
        /\ Cardinality(ProxyGets(calls[k].url)) = 1

\* C4: a failed extraction never ends create_digest: a run that raises has
\* built its prompt before, and no _extract_text invocation has raised.
C4_ExtractionFailureNeverAborts ==
    pc = "raised" =>
        /\ prompt # <<>>
        /\ i > Len(items)
        /\ \A r \in Selected : "content" \in DOMAIN heap[r]

\* C5: the configuration error is raised before any network call: when
\* create_digest has raised ValueError, no request has been issued.
C5_ConfigErrorBeforeAnyRequest ==
    raised = "ValueError" => net = <<>>

\* C6: the POST is issued only with a non-empty credential; without one the
\* run ends with the configuration error and returns no digest.
C6_PostOnlyWithCredential ==
    /\ Posts # {} => env.OPENROUTER_API_KEY \notin {<<>>, << <<>> >>}
    /\ (Ended /\ env.OPENROUTER_API_KEY \in {<<>>, << <<>> >>}) =>
           /\ raised = "ValueError"
           /\ result = <<>>

\* C7: for a selected item whose stripped description is longer than 50, the
\* extractor is never invoked and no request goes to its URL, and once the
\* Enricher has handled the item its content is the description cut to
\* CHAR_LIMIT.
C7_DescriptionShortCircuit ==
    \A k \in 1..Len(items) :
        LET it == heap[items[k]]
        IN  Qualifies(it) =>
              /\ CallsFor(it.url) = {}
              /\ DirectGets(it.url) = {} /\ ProxyGets(it.url) = {}
              /\ k < i => /\ "content" \in DOMAIN it
                          /\ it.content = Prefix(it.description, CHAR_LIMIT)

\* C7 witness: the Enricher has handled a qualifying item and a truncation
\* took place
C7_Witness ==
    \E k \in 1..Len(items) :
        /\ Qualifies(heap[items[k]])
        /\ k < i
        /\ Len(heap[items[k]].content) < Len(heap[items[k]].description)

\* C8: every selected item without a qualifying description gets exactly one
\* extractor invocation, whose result becomes its content, so that a run
\* makes as many invocations as there are such items.
C8_OneExtractionPerItem ==
    Ended =>
        /\ Len(calls) = Cardinality({r \in Selected : ~Qualifies(heap[r])})
        /\ \A r \in Selected :
              ~Qualifies(heap[r]) =>
                 /\ Cardinality(CallsFor(heap[r].url)) = 1
                 /\ \A k \in CallsFor(heap[r].url) :
                       /\ "content" \in DOMAIN heap[r]
                       /\ heap[r].content = calls[k].value

\* C9: the working list holds min(N, MAX_PER_DIGEST) items, none older than
\* an item left out; only they are enriched, and the prompt renders exactly
\* them, one block with its own StoryId each.
C9_MostRecentSelected ==
    pc # "start" =>
        /\ Len(items) = Min(Len(callerItems), MAX_PER_DIGEST)
        /\ Cardinality(Selected) = Len(items)
        /\ Selected \subseteq DOMAIN heap
        /\ \A r \in Selected : \A u \in DOMAIN heap \ Selected :
               When(r) >= When(u)
        /\ \A r \in DOMAIN heap : "content" \in DOMAIN heap[r] => r \in Selected
        /\ prompt # <<>> =>
              LET st == prompt[1].stories
              IN  /\ Len(st) = Len(items)
                  /\ \A k \in 1..Len(st) :
                        /\ st[k].url = heap[items[k]].url
                        /\ st[k].id = SubSeq(Sha256Hex(heap[items[k]].url), 1, 16)
                        /\ "content" \in DOMAIN heap[items[k]]
                  /\ Cardinality({st[k].id : k \in 1..Len(st)}) = Len(st)

\* C9 witness: more items than the cap, of different ages, and the prompt
\* is built
C9_Witness ==
    /\ prompt # <<>>
    /\ Len(callerItems) > MAX_PER_DIGEST
    /\ Len(prompt[1].stories) = MAX_PER_DIGEST
    /\ \E r \in Selected : \E u \in DOMAIN heap \ Selected :
           /\ When(r) > When(u)
           /\ u < r

\* C10: the working list is in descending published_at order and equal
\* timestamps keep their input order; of two equally old items of which only
\* one is selected, it is the one that came first in the input.
C10_StableDescending ==
    pc # "start" =>
        /\ \A a, b \in 1..Len(items) :
              a < b =>
                 /\ When(items[a]) >= When(items[b])
                 /\ When(items[a]) = When(items[b]) => items[a] < items[b]
        /\ \A r \in Selected : \A u \in DOMAIN heap \ Selected :
              When(r) = When(u) => r < u

\* C10 witness: a tie straddles the cut
C10_Witness ==
    /\ pc # "start"
    /\ \E r \in Selected : \E u \in DOMAIN heap \ Selected :
           When(r) = When(u)

\* the defaults that test_constants expects of the module
TestedMaxStories == 12
TestedCharLimit  == 7000

\* C11: with MAX_STORIES and ARTICLE_CHAR_LIMIT unset, MAX_PER_DIGEST is 12
\* and CHAR_LIMIT is 7000; when set, each is the integer value of its
\* variable.
C11_DefaultsAre12And7000 ==
    /\ MAX_PER_DIGEST =
          IF env.MAX_STORIES = <<>> THEN TestedMaxStories
          ELSE ParseInt(env.MAX_STORIES[1])
    /\ CHAR_LIMIT =
          IF env.ARTICLE_CHAR_LIMIT = <<>> THEN TestedCharLimit
          ELSE ParseInt(env.ARTICLE_CHAR_LIMIT[1])

\* the reply to the POST was an HTTP response with this property of its status
Replied(P(_)) == reply # <<>> /\ reply[1].kind # "neterr" /\ P(reply[1].status)
Is2xx(status) == status >= 200 /\ status < 300
Not2xx(status) == ~Is2xx(status)

\* C12: one run issues at most one POST to the LLM endpoint, and a non-2xx
\* response to it is fatal: create_digest raises, returns no digest and does
\* not repeat the POST.
C12_NonSuccessIsFatal ==
    /\ Cardinality(Posts) <= 1
    /\ Replied(Not2xx) => pc = "raised" /\ raised # "none" /\ result = <<>>

\* the content of the reply, when the response was a 2xx one that has it
Content == IF Replied(Is2xx) /\ reply[1].kind = "ok" THEN {reply[1].text} ELSE {}

\* the fixture texts that are the serialization of a digest cut off before
\* its end: no such text is valid JSON
CutShort ==
    {c \in CONTENTS :
        \E d \in DIGESTS :
            \E n \in 1..Len(json_dumps(d)) :
                ContentTokens[c] = Truncate(json_dumps(d), n)}

\* C13: a response content that is not valid JSON (a digest truncated at the
\* token budget) makes create_digest fail with json.JSONDecodeError and
\* return no digest, and nothing is handed to schema validation.
C13_MalformedResponse ==
    /\ \A c \in Content \cap CutShort :
          /\ pc = "raised" /\ raised = "JSONDecodeError"
          /\ result = <<>>
          /\ validated = <<>>
    /\ raised = "JSONDecodeError" => result = <<>> /\ validated = <<>>

\* C13 witness: the reply carried a truncated digest and the run has ended
C13_Witness ==
    /\ Content \cap CutShort # {}
    /\ raised = "JSONDecodeError"

\* the fixture texts that parse, and the value each parses to
Parses     == {c \in CONTENTS : Loaded[c].exc = "none"}
ValueOf(c) == Loaded[c].value

TOP_LEVEL    == {"date", "executive_summary", "stories"}
STORY_FIELDS == {"id", "title", "url", "published_at", "source", "summary"}

IsStr(v) == v.t = "str"
HasStr(o, key) == key \in Keys(o) /\ IsStr(Get(o, key))

\* the fixture texts holding JSON that is no object or lacks a top-level field
TopLevelBroken ==
    {c \in Parses : ValueOf(c).t # "obj" \/ ~(TOP_LEVEL \subseteq Keys(ValueOf(c)))}

\* C14: a response content that parses as JSON but is not an object, or
\* lacks one of date, executive_summary and stories, makes create_digest
\* fail with the validation error and return no digest.
C14_TopLevelSchemaViolation ==
    \A c \in Content \cap TopLevelBroken :
        /\ pc = "raised" /\ raised = "ValidationError"
        /\ result = <<>>

\* C14 witness: the reply was an object without stories and the run ended
C14_Witness ==
    /\ \E c \in Content \cap TopLevelBroken :
          ValueOf(c).t = "obj" /\ "stories" \notin Keys(ValueOf(c))
    /\ raised = "ValidationError"

\* a story with the six required fields as strings; one whose optional
\* fields, if there, are a string and a list of strings
StoryComplete(s) == s.t = "obj" /\ \A f \in STORY_FIELDS : HasStr(s, f)
OptionalsFine(s) ==
    /\ "category" \in Keys(s) => IsStr(Get(s, "category"))
    /\ "tags" \in Keys(s) =>
          /\ Get(s, "tags").t = "arr"
          /\ \A n \in 1..Len(Get(s, "tags").a) : IsStr(Get(s, "tags").a[n])
StoriesOf(v) == Get(v, "stories").a

\* a value of the Digest shape, spelt out field by field
WellShaped(v) ==
    /\ v.t = "obj"
    /\ HasStr(v, "date") /\ HasStr(v, "executive_summary")
    /\ "stories" \in Keys(v) /\ Get(v, "stories").t = "arr"
    /\ \A n \in 1..Len(StoriesOf(v)) :
          StoryComplete(StoriesOf(v)[n]) /\ OptionalsFine(StoriesOf(v)[n])

\* the fixture texts whose stories is a list with an object in it that lacks
\* a required field; those of the Digest shape with a story that has no
\* category or no tags
StoryFieldMissing ==
    {c \in Parses \ TopLevelBroken :
        /\ Get(ValueOf(c), "stories").t = "arr"
        /\ \E n \in 1..Len(StoriesOf(ValueOf(c))) :
              LET s == StoriesOf(ValueOf(c))[n]
              IN  s.t = "obj" /\ ~(STORY_FIELDS \subseteq Keys(s))}
OptionalsOmitted ==
    {c \in Parses :
        /\ WellShaped(ValueOf(c))
        /\ \E n \in 1..Len(StoriesOf(ValueOf(c))) :
              {"category", "tags"} \cap Keys(StoriesOf(ValueOf(c))[n]) = {}}

\* C15: a digest is accepted only if every story is an object with id, title,
\* url, published_at, source and summary as strings; a story without one of
\* them makes the response a schema violation; a story without category and
\* tags is accepted.
C15_StoryFields ==
    /\ result # <<>> =>
          \A n \in 1..Len(StoriesOf(result[1])) :
              StoryComplete(StoriesOf(result[1])[n])
    /\ \A c \in Content \cap StoryFieldMissing :
          pc = "raised" /\ raised = "ValidationError" /\ result = <<>>
    /\ \A c \in Content \cap OptionalsOmitted :
          pc = "done" /\ result # <<>>

\* C15 witness: a digest with a story that has neither category nor tags
\* has been accepted
C15_Witness ==
    /\ Content \cap OptionalsOmitted # {}
    /\ pc = "done"
    /\ \E n \in 1..Len(StoriesOf(result[1])) :
          {"category", "tags"} \cap Keys(StoriesOf(result[1])[n]) = {}

\* the digests a fixture text is the serialization of
SerializedIn ==
    [c \in CONTENTS |-> {d \in DIGESTS : ContentTokens[c] = json_dumps(d)}]

\* C16: when the response content is the JSON serialization of a Digest,
\* create_digest returns a value equal to that Digest field for field,
\* with nothing added, dropped, reordered or rewritten.
C16_RoundTrip ==
    \A c \in Content :
        \A d \in SerializedIn[c] :
            WellShaped(d) => pc = "done" /\ result = <<d>>

\* C16 witness: the serialization of a digest with two stories, one of them
\* with tags, came back
C16_Witness ==
    /\ pc = "done"
    /\ \E c \in Content : \E d \in SerializedIn[c] :
          /\ Len(StoriesOf(d)) > 1
          /\ \E n \in 1..Len(StoriesOf(d)) :
                 /\ "tags" \in Keys(StoriesOf(d)[n])
                 /\ Len(Get(StoriesOf(d)[n], "tags").a) > 1

\* the stories of a digest that are about no input item, and the input
\* items that no story of the digest is about
InputUrls     == {JStr(heap[r].url) : r \in DOMAIN heap}
Foreign(v)    == {n \in 1..Len(StoriesOf(v)) : Get(StoriesOf(v)[n], "url") \notin InputUrls}
Unreported(v) == InputUrls \ {Get(StoriesOf(v)[n], "url") : n \in 1..Len(StoriesOf(v))}

\* C17: the response is not checked against the input; a digest of the right
\* shape whose stories are about no input item, or which leaves input items
\* out, is returned exactly as the model gave it.
C17_NoCrossCheck ==
    \A c \in Content \cap Parses :
        (/\ WellShaped(ValueOf(c))
         /\ Foreign(ValueOf(c)) # {} \/ Unreported(ValueOf(c)) # {})
            => pc = "done" /\ result = <<ValueOf(c)>>

\* C17 witness: the returned digest has a story about no input item and
\* leaves an input item out
C17_Witness ==
    /\ pc = "done"
    /\ result # <<>>
    /\ Foreign(result[1]) # {}
    /\ Unreported(result[1]) # {}

\* the "### STORY" blocks of all prompts built so far
Blocks ==
    {bpOut[c].stories[k] : c \in 1..Len(bpOut), k \in 1..Len(bpItems)}
HEX == {"0", "1", "2", "3", "4", "5", "6", "7", "8", "9",
        "a", "b", "c", "d", "e", "f"}

\* C18: the id rendered in the prompt is a function of the item's URL alone:
\* the same URL gives the same id in every call and for every item that has
\* it, whatever the item's title, source, date or content; and an id is
\* exactly 16 lowercase hexadecimal characters.
C18_StoryIdOfUrl ==
    /\ \A a, b \in Blocks : a.url = b.url => a.id = b.id
    /\ \A a \in Blocks :
          Len(a.id) = 16 /\ \A n \in 1..Len(a.id) : a.id[n] \in HEX

\* C18 witness: two calls, and two items that share a URL and nothing else
C18_Witness ==
    /\ Len(bpOut) >= 2
    /\ \E a, b \in Blocks :
          /\ a.url = b.url
          /\ a.title # b.title /\ a.source # b.source
          /\ a.published # b.published /\ a.article # b.article

\* requests that fetch an article: direct ones and ones through the proxy
DirectFetches == {n \in 1..Len(net) : net[n][1] = "GET" /\ Len(net[n]) = 2}
ProxyFetches  == {n \in 1..Len(net) : net[n][1] = "GET" /\ Len(net[n]) = 3}

\* C19 as stated: in one run the article fetches, direct and proxy together,
\* number at most MAX_PER_DIGEST, and the LLM calls at most 1.
C19_FetchesAtMostCap ==
    /\ Cardinality(DirectFetches) + Cardinality(ProxyFetches) <= MAX_PER_DIGEST
    /\ Cardinality(Posts) <= 1

\* C19 amended: at most MAX_PER_DIGEST direct fetches, at most one proxy
\* fetch per direct fetch, so at most 2 * MAX_PER_DIGEST article fetches in
\* all; at most 1 LLM call.
C19_FetchBudget ==
    /\ Cardinality(DirectFetches) <= MAX_PER_DIGEST
    /\ Cardinality(ProxyFetches) <= Cardinality(DirectFetches)
    /\ Cardinality(DirectFetches) + Cardinality(ProxyFetches) <= 2 * MAX_PER_DIGEST
    /\ Cardinality(Posts) <= 1

\* C19 witness: every selected item took a direct and a proxy fetch, twice
\* the cap in all, and the LLM was called
C19_Witness ==
    /\ Cardinality(DirectFetches) = MAX_PER_DIGEST
    /\ Cardinality(ProxyFetches) = MAX_PER_DIGEST
    /\ Cardinality(Posts) = 1

\* the row stored for a URL, if any
RowsFor(d, u) == {n \in 1..Len(Rows(d)) : Rows(d)[n].url = u}
BatchUrls     == {batch[n].url : n \in 1..Len(batch)}

\* C20: the store holds at most one row per URL; a save_batch call leaves
\* every row it found as it was, and an item whose URL was stored already
\* adds no row, whatever its title, date or source.
C20_DuplicateUrlIgnored ==
    /\ \A a, b \in 1..Len(Rows(db)) : a # b => Rows(db)[a].url # Rows(db)[b].url
    /\ Len(Rows(db)) >= Len(Rows(prior))
    /\ \A n \in 1..Len(Rows(prior)) : Rows(db)[n] = Rows(prior)[n]
    /\ \A u \in BatchUrls :
          RowsFor(prior, u) # {} => RowsFor(db, u) = RowsFor(prior, u)

\* C20 witness: the last call offered an item with a stored URL and another
\* title, date and source, next to an item that was new
C20_Witness ==
    /\ \E n \in 1..Len(batch) : \E k \in 1..Len(Rows(prior)) :
          /\ COLUMNS \subseteq DOMAIN batch[n]
          /\ batch[n].url = Rows(prior)[k].url
          /\ batch[n].title # Rows(prior)[k].title
          /\ batch[n].published_at # Rows(prior)[k].published_at
          /\ batch[n].source # Rows(prior)[k].source
    /\ Len(Rows(db)) > Len(Rows(prior))

\* the stored rows a query result leaves out
LeftOut == {n \in 1..Len(Rows(db)) : \A k \in 1..Len(recent) : recent[k] # Rows(db)[n]}

\* C21: get_recent_items(limit) returns at most limit rows, in descending
\* published_at order; they are stored rows, each once, and no row left out
\* has a greater published_at than a returned one; without a database, or
\* with an empty table, it returns the empty list.
C21_MostRecentRows ==
    recentLimit # <<>> =>
        /\ Len(recent) = Min(recentLimit[1], Len(Rows(db)))
        /\ \A a, b \in 1..Len(recent) :
              a < b => ~TextLess[recent[a].published_at, recent[b].published_at]
        /\ \A a, b \in 1..Len(recent) : a # b => recent[a] # recent[b]
        /\ \A k \in 1..Len(recent) : \E n \in 1..Len(Rows(db)) : recent[k] = Rows(db)[n]
        /\ \A n \in LeftOut : \A k \in 1..Len(recent) :
              ~TextLess[recent[k].published_at, Rows(db)[n].published_at]
        /\ Rows(db) = <<>> => recent = <<>>

\* C21 witness: the table holds more rows than asked for, and the newest
\* row is not the one stored first
C21_Witness ==
    /\ recentLimit # <<>>
    /\ recentLimit[1] > 0
    /\ Len(Rows(db)) > recentLimit[1]
    /\ recent[1] # Rows(db)[1]

\* positions of the selected items that have their content set
Enriched   == {k \in 1..Len(items) : "content" \in DOMAIN heap[items[k]]}
\* the place in the selection of the item a direct request is for
PlaceOf(u) == CHOOSE k \in 1..Len(items) : heap[items[k]].url = u

\* C27: a create_digest run goes select, enrich, build prompt, LLM call,
\* validate, return: items get their content one at a time in selection
\* order, the one POST is issued only when every selected item has its
\* content and after every article fetch, and a digest is returned only
\* once the response has parsed and passed schema validation.
C27_FixedOrder ==
    /\ pc \in {"enrich", "jina"} => Enriched = 1..(i - 1)
    /\ \A a, b \in DirectFetches :
          a < b => PlaceOf(net[a][2]) < PlaceOf(net[b][2])
    /\ prompt # <<>> =>
          /\ Enriched = 1..Len(items)
          /\ Len(prompt[1].stories) = Len(items)
          /\ \A k \in 1..Len(items) : prompt[1].stories[k].url = heap[items[k]].url
    /\ \A n \in Posts : prompt # <<>> /\ n = Len(net)
    /\ reply # <<>> => Posts # {}
    /\ validated # <<>> => reply # <<>> /\ Loaded[reply[1].text] = Returns(validated[1])
    /\ result # <<>> => pc = "done" /\ validated = result /\ WellShaped(result[1])

\* C27 witness: a run over two items, each fetched, has returned a digest
C27_Witness ==
    /\ pc = "done"
    /\ Len(items) = 2
    /\ Cardinality(DirectFetches) = 2

\* C28: create_digest leaves the caller's records and list as they are: no
\* step changes a field of an input record or the caller's list.
C28_InputsUnchanged ==
    [][heap' = heap /\ callerItems' = callerItems]_vars

\* ---- claims about main
Last(sq)       == sq[Len(sq)]
Happened(op)   == {p \in 1..Len(log) : log[p].op = op}
ErrorReported  == log # <<>> /\ Last(log) = Event("print", "Error generating digest", 0)
MainEnded      == mpc \in {"done", "raised"}
\* every item of a batch fetched and saved in this run has its row
SavedItems     ==
    UNION {{fetched[c][k] : k \in 1..Len(fetched[c])} : c \in 1..(col - 1)}
StillStored    ==
    /\ \A it \in SavedItems : \E n \in 1..Len(Rows(db)) : Rows(db)[n].url = it.url
    /\ db = <<>> \/ Len(Rows(db)) >= Len(Rows(prior))
    /\ \A n \in 1..Len(Rows(prior)) : Rows(db)[n] = Rows(prior)[n]
\* create_digest raised; it returned and the file could not be written
DigestRaised   == MainEnded /\ pc = "raised"
WriteFailed    == MainEnded /\ pc = "done" /\ files = <<>>

\* C22: when create_digest raises or the output file cannot be written, main
\* catches the error, reports it and returns normally, and the items saved
\* earlier in the run are still stored.
C22_DigestFailureContained ==
    /\ pc # "idle" => mainRaised = "none"
    /\ (DigestRaised \/ WriteFailed) =>
          /\ mpc = "done"
          /\ ErrorReported
          /\ StillStored

\* C22 witness: create_digest raised after a batch of this run was stored
C22_Witness ==
    /\ DigestRaised
    /\ raised # "ValueError"
    /\ SavedItems # {}

C24_DigestAfterCollection ==
    /\ \A p \in Happened("recent") \cup Happened("create_digest") :
          \A c \in 1..Len(COLLECTORS) :
              \E q \in 1..(p - 1) : log[q].op = "save" /\ log[q].arg = COLLECTORS[c]
    /\ \A p \in Happened("create_digest") :
          log[p].n > 0 /\ recent # <<>> /\ log[p - 1].op = "recent"
    /\ (pc # "idle" \/ files # <<>>) => Happened("create_digest") # {}
    /\ (recentLimit # <<>> /\ recent = <<>>) =>
          /\ pc = "idle"
          /\ Happened("create_digest") = {}
          /\ files = <<>>

\* C24 witness: the store had no rows for main, and main has ended
C24_Witness ==
    /\ mpc = "done"
    /\ recentLimit # <<>>
    /\ recent = <<>>

\* C25: when create_digest succeeds and the file is written, exactly one
\* file is written, output/<date>.json for the date field of the returned
\* digest, and its text parses back to the returned digest.
C25_OutputFile ==
    /\ Len(files) <= 1
    /\ files # <<>> =>
          /\ pc = "done" /\ result # <<>>
          /\ files[1].dir = "output"
          /\ files[1].stem = Get(result[1], "date").s
          /\ files[1].ext = ".json"
          /\ json_loads(files[1].text) = Returns(result[1])
    /\ (mpc = "done" /\ pc = "done" /\ ~ErrorReported) => Len(files) = 1

\* C25 witness: a digest with stories was written
C25_Witness ==
    /\ mpc = "done"
    /\ files # <<>>
    /\ StoriesOf(result[1]) # <<>>

\* the strategies fetch_items tried, in order
Tried == SelectSeq(log, LAMBDA e : e.op \in {"rss", "scrape"})

\* C26: fetch_items tries the RSS candidates in listed order and returns the
\* first non-empty result without trying anything later; a candidate that
\* raises counts as empty; the scrape is tried only when every candidate
\* returned no items.
C26_StrategiesInOrder ==
    /\ \A p \in 1..Len(Tried) :
          /\ \A q \in 1..(p - 1) : Tried[q].op = "rss" /\ Tried[q].n = 0
          /\ Tried[p].op = "rss" =>
                p <= Len(RSS_CANDIDATES) /\ Tried[p].arg = RSS_CANDIDATES[p]
          /\ Tried[p].op = "scrape" => p = Len(RSS_CANDIDATES) + 1
    /\ \A p \in Happened("warning") :
          log[p + 1] = Event("rss", log[p].arg, 0)
    /\ fetched # <<>> =>
          /\ Tried # <<>>
          /\ Len(fetched[1]) = Last(Tried).n
          /\ Last(Tried).op = "rss" => fetched[1] = Entries(Len(Tried))
    /\ (col = 1 /\ mpc = "collect") => rss = Len(Tried) + 1

\* C26 witness: the first candidate raised and the second one won
C26_Witness ==
    /\ Happened("warning") # {}
    /\ fetched # <<>>
    /\ Last(Tried).op = "rss"
    /\ Len(Tried) = 2

\* C29: on the way through main no row handed to create_digest has a
\* description, so every item gets its content from the Content Extractor;
\* a digest is produced only after one extraction per selected item.
C29_ExtractorForEveryItem ==
    /\ \A r \in DOMAIN heap : "description" \notin DOMAIN heap[r]
    /\ \A k \in Enriched :
          \E c \in 1..Len(calls) :
              calls[c].url = heap[items[k]].url /\ calls[c].status = "returned"
    /\ result # <<>> => Len(calls) = Len(items)

\* C29 witness: a collector supplied a substantial description for an item
\* that is in the digest's selection, and the digest was produced
C29_Witness ==
    /\ result # <<>>
    /\ \E it \in SavedItems :
          /\ Qualifies(it)
          /\ \E k \in 1..Len(items) : heap[items[k]].url = it.url

\* C30: whatever MAX_STORIES is, and whenever it was set, the limit main
\* passes to get_recent_items equals MAX_PER_DIGEST.
C30_LimitEqualsCap ==
    mpc # "idle" /\ recentLimit # <<>> => recentLimit[1] = MAX_PER_DIGEST

====
